---- MODULE Spec2Model ----
(***************************************************************************)
(* A model of json2csv.py: JSONToCSVConverter.convert and the four steps   *)
(* it runs (_parse_json/_parse_ndjson, _json_to_records/_flatten_object,   *)
(* _filter_fields, _write_csv).                                            *)
(*                                                                         *)
(* Strings are sequences of code points, so that sorted() and the dotted   *)
(* keys are computed, not assumed.  A JSON value is a record               *)
(*   [t, s, keys, kids]                                                    *)
(* t is the tag; s the text of a string, or <<n>> for the number n, or     *)
(* <<b>> for a boolean; keys/kids the items of an object in insertion      *)
(* order (a Python dict); kids alone the elements of a list.               *)
(***************************************************************************)
EXTENDS Integers, Sequences, FiniteSets, TLC

\* ------------------------------------------------------------ bounds

MaxLines == 3
MaxKeys == 2
MaxRecords == 2

\* ------------------------------------------------------------ strings

Dot == <<46>>
Pipe == <<124>>
KA == <<97>>
KB == <<98>>
KZ == <<122>>
KEmpty == <<>>
KValue == <<118, 97, 108, 117, 101>>
TxtX == <<120>>
TxtNone == <<78, 111, 110, 101>>
TxtTrue == <<84, 114, 117, 101>>
TxtFalse == <<70, 97, 108, 115, 101>>

RECURSIVE Digits(_)
Digits(n) == IF n < 10 THEN <<48 + n>> ELSE Digits(n \div 10) \o <<48 + (n % 10)>>

\* a < b in Python's str order: code point by code point, a proper prefix first.
RECURSIVE StrLess(_, _)
StrLess(a, b) ==
    IF b = <<>> THEN FALSE
    ELSE IF a = <<>> THEN TRUE
    ELSE IF Head(a) # Head(b) THEN Head(a) < Head(b)
    ELSE StrLess(Tail(a), Tail(b))

RECURSIVE JoinStrs(_, _)
JoinStrs(sep, strs) ==
    IF strs = <<>> THEN <<>>
    ELSE IF Len(strs) = 1 THEN strs[1]
    ELSE strs[1] \o sep \o JoinStrs(sep, Tail(strs))

\* ------------------------------------------------------------ JSON values

Null == [t |-> "null", s |-> <<>>, keys |-> <<>>, kids |-> <<>>]
Num(n) == [t |-> "num", s |-> <<n>>, keys |-> <<>>, kids |-> <<>>]
Bool(b) == [t |-> "bool", s |-> <<b>>, keys |-> <<>>, kids |-> <<>>]
Str(txt) == [t |-> "str", s |-> txt, keys |-> <<>>, kids |-> <<>>]
List(items) == [t |-> "list", s |-> <<>>, keys |-> <<>>, kids |-> items]
Obj(ks, vs) == [t |-> "obj", s |-> <<>>, keys |-> ks, kids |-> vs]
EmptyDict == Obj(<<>>, <<>>)

IsDict(v) == v.t = "obj"
IsList(v) == v.t = "list"

HasKey(d, k) == \E i \in 1..Len(d.keys) : d.keys[i] = k
KeyIndex(d, k) == CHOOSE i \in 1..Len(d.keys) : d.keys[i] = k
DictGet(d, k) == d.kids[KeyIndex(d, k)]
KeySet(d) == {d.keys[i] : i \in 1..Len(d.keys)}

\* d[k] = v: a present key keeps its place, a new key goes last.
DictSet(d, k, v) ==
    IF HasKey(d, k)
    THEN Obj(d.keys, [d.kids EXCEPT ![KeyIndex(d, k)] = v])
    ELSE Obj(Append(d.keys, k), Append(d.kids, v))

\* d.update(e)
RECURSIVE DictUpdateFrom(_, _, _)
DictUpdateFrom(d, e, i) ==
    IF i > Len(e.keys) THEN d
    ELSE DictUpdateFrom(DictSet(d, e.keys[i], e.kids[i]), e, i + 1)

DictUpdate(d, e) == DictUpdateFrom(d, e, 1)

\* repr(v) and str(v) of a parsed JSON value.
RECURSIVE PyRepr(_)
PyRepr(v) ==
    CASE v.t = "null" -> TxtNone
      [] v.t = "num" -> Digits(v.s[1])
      [] v.t = "bool" -> IF v.s[1] = 1 THEN TxtTrue ELSE TxtFalse
      [] v.t = "str" -> <<39>> \o v.s \o <<39>>
      [] v.t = "list" ->
            <<91>> \o JoinStrs(<<44, 32>>, [i \in 1..Len(v.kids) |-> PyRepr(v.kids[i])])
                   \o <<93>>
      [] v.t = "obj" ->
            <<123>> \o JoinStrs(<<44, 32>>,
                         [i \in 1..Len(v.kids) |->
                             <<39>> \o v.keys[i] \o <<39, 58, 32>> \o PyRepr(v.kids[i])])
                    \o <<125>>

PyStr(v) == IF v.t = "str" THEN v.s ELSE PyRepr(v)

\* ------------------------------------------------------------ _flatten_object

\* new_key = f"{prefix}.{key}" if prefix else key
NewKey(prefix, key) == IF prefix # <<>> THEN prefix \o Dot \o key ELSE key

\* self.join_string.join(str(v) for v in value)
JoinList(join_string, value) ==
    Str(JoinStrs(join_string, [i \in 1..Len(value.kids) |-> PyStr(value.kids[i])]))

\* for i, item in enumerate(value): flattened[f"{new_key}.{i}"] = item
RECURSIVE IndexList(_, _, _, _)
IndexList(flattened, new_key, value, i) ==
    IF i > Len(value.kids) THEN flattened
    ELSE IndexList(DictSet(flattened, new_key \o Dot \o Digits(i - 1), value.kids[i]),
                   new_key, value, i + 1)

\* The loop of _flatten_object from item i on, flattened being the result so far.
RECURSIVE FlattenFrom(_, _, _, _, _)
FlattenFrom(c, obj, prefix, i, flattened) ==
    IF i > Len(obj.keys) THEN flattened
    ELSE LET key == obj.keys[i]
             value == obj.kids[i]
             new_key == NewKey(prefix, key)
             next ==
                 IF IsDict(value)
                 THEN DictUpdate(flattened, FlattenFrom(c, value, new_key, 1, EmptyDict))
                 ELSE IF IsList(value)
                 THEN IF c.list_handling = "join"
                      THEN DictSet(flattened, new_key, JoinList(c.join_string, value))
                      ELSE IF c.list_handling = "index"
                      THEN IndexList(flattened, new_key, value, 1)
                      ELSE DictSet(flattened, new_key, value)
                 ELSE DictSet(flattened, new_key, value)
         IN FlattenFrom(c, obj, prefix, i + 1, next)

\* A variant of _flatten_object that does not recurse: a nested object stays a value.
RECURSIVE ShallowFrom(_, _, _, _, _)
ShallowFrom(c, obj, prefix, i, flattened) ==
    IF i > Len(obj.keys) THEN flattened
    ELSE LET value == obj.kids[i]
             new_key == NewKey(prefix, obj.keys[i])
             next ==
                 IF IsList(value) /\ c.list_handling = "join"
                 THEN DictSet(flattened, new_key, JoinList(c.join_string, value))
                 ELSE IF IsList(value) /\ c.list_handling = "index"
                 THEN IndexList(flattened, new_key, value, 1)
                 ELSE DictSet(flattened, new_key, value)
         IN ShallowFrom(c, obj, prefix, i + 1, next)

FlattenShallow(c, obj, prefix) == ShallowFrom(c, obj, prefix, 1, EmptyDict)

FlattenObject(c, obj, prefix) == FlattenFrom(c, obj, prefix, 1, EmptyDict)

\* ------------------------------------------------------------ _json_to_records

JsonToRecords(c, json_data) ==
    [i \in 1..Len(json_data) |->
        IF IsDict(json_data[i])
        THEN FlattenObject(c, json_data[i], <<>>)
        ELSE Obj(<<KValue>>, <<json_data[i]>>)]

\* ------------------------------------------------------------ _filter_fields

RECURSIVE FilterRecord(_, _, _, _)
FilterRecord(record, fields, i, filtered_record) ==
    IF i > Len(fields) THEN filtered_record
    ELSE FilterRecord(record, fields, i + 1,
            DictSet(filtered_record, fields[i],
                    IF HasKey(record, fields[i]) THEN DictGet(record, fields[i]) ELSE Null))

\* A variant of _filter_fields that leaves out a requested key the record lacks.
RECURSIVE OmitAbsentRecord(_, _, _, _)
OmitAbsentRecord(record, fields, i, filtered_record) ==
    IF i > Len(fields) THEN filtered_record
    ELSE OmitAbsentRecord(record, fields, i + 1,
            IF HasKey(record, fields[i])
            THEN DictSet(filtered_record, fields[i], DictGet(record, fields[i]))
            ELSE filtered_record)

FilterFieldsOmitAbsent(records, fields) ==
    [i \in 1..Len(records) |-> OmitAbsentRecord(records[i], fields, 1, EmptyDict)]

FilterFields(records, fields) ==
    [i \in 1..Len(records) |-> FilterRecord(records[i], fields, 1, EmptyDict)]

\* ------------------------------------------------------------ _write_csv

\* sorted(S) for a set of strings.
RECURSIVE Sorted(_)
Sorted(S) ==
    IF S = {} THEN <<>>
    ELSE LET m == CHOOSE x \in S : \A y \in S \ {x} : StrLess(x, y)
         IN <<m>> \o Sorted(S \ {m})

\* fieldnames = set(); for record in records: fieldnames.update(record.keys())
AllKeys(records) == UNION {KeySet(records[i]) : i \in 1..Len(records)}

\* A variant of the column list without sorted(): the keys as first met.
RECURSIVE FirstMet(_, _)
FirstMet(keys, seen) ==
    IF keys = <<>> THEN seen
    ELSE FirstMet(Tail(keys),
                  IF \E i \in 1..Len(seen) : seen[i] = Head(keys)
                  THEN seen ELSE Append(seen, Head(keys)))

RECURSIVE ConcatKeys(_)
ConcatKeys(records) ==
    IF records = <<>> THEN <<>> ELSE Head(records).keys \o ConcatKeys(Tail(records))

FieldNamesUnsorted(records) == FirstMet(ConcatKeys(records), <<>>)

\* A variant of the column list taken from the first record alone.
FieldNamesFirstRecord(records) == Sorted(KeySet(records[1]))

FieldNames(records) == Sorted(AllKeys(records))

\* A cell as the csv writer renders a value: None is empty, the rest is str(v).
Cell(v) == IF v.t = "null" THEN <<>> ELSE PyStr(v)

\* DictWriter._dict_to_list: restval '' for a column the record lacks.
RowOf(record, names) ==
    [j \in 1..Len(names) |->
        IF HasKey(record, names[j]) THEN Cell(DictGet(record, names[j])) ELSE <<>>]

\* DictWriter (extrasaction='raise') rejects a record with a key outside fieldnames.
HasExtras(record, names) ==
    \E k \in KeySet(record) : \A j \in 1..Len(names) : names[j] # k

\* ------------------------------------------------------------ _parse_json

\* A line of the input text: blank (empty or whitespace only), one complete JSON
\* document, text that is no JSON at all, or a bracket of an array spread over lines.
Blank == [kind |-> "blank", val |-> Null]
Bad == [kind |-> "bad", val |-> Null]
Open == [kind |-> "open", val |-> Null]
Close == [kind |-> "close", val |-> Null]
Json(v) == [kind |-> "json", val |-> v]

IsBlank(line) == line.kind = "blank"

\* str.strip() of the text: blank lines at either end go.
RECURSIVE LStrip(_)
LStrip(lines) ==
    IF lines = <<>> THEN <<>>
    ELSE IF IsBlank(Head(lines)) THEN LStrip(Tail(lines))
    ELSE lines

RECURSIVE RStrip(_)
RStrip(lines) ==
    IF lines = <<>> THEN <<>>
    ELSE IF IsBlank(lines[Len(lines)]) THEN RStrip(SubSeq(lines, 1, Len(lines) - 1))
    ELSE lines

Strip(lines) == RStrip(LStrip(lines))

\* json.loads(content): white space between tokens, line breaks included, is skipped.
JsonLoads(content) ==
    LET nb == SelectSeq(content, LAMBDA l : ~IsBlank(l))
    IN IF Len(nb) = 1 /\ nb[1].kind = "json"
       THEN [ok |-> TRUE, data |-> nb[1].val]
       ELSE IF Len(nb) = 2 /\ nb[1].kind = "open" /\ nb[2].kind = "close"
       THEN [ok |-> TRUE, data |-> List(<<>>)]
       ELSE IF Len(nb) = 3 /\ nb[1].kind = "open" /\ nb[2].kind = "json"
                           /\ nb[3].kind = "close"
       THEN [ok |-> TRUE, data |-> List(<<nb[2].val>>)]
       ELSE [ok |-> FALSE, data |-> Null]

NoError == [kind |-> "none", line |-> 0]
ShapeError == [kind |-> "JSON must be an object or array", line |-> 0]
ExpectedObject(n) == [kind |-> "Expected JSON object", line |-> n]
InvalidJson(n) == [kind |-> "Invalid JSON", line |-> n]
WriterError == [kind |-> "dict contains fields not in fieldnames", line |-> 0]

\* The loop of _parse_ndjson from line line_num on.
RECURSIVE NdjsonFrom(_, _, _)
NdjsonFrom(lines, line_num, recs) ==
    IF line_num > Len(lines) THEN [error |-> NoError, data |-> recs]
    ELSE LET line == lines[line_num]
         IN IF IsBlank(line) THEN NdjsonFrom(lines, line_num + 1, recs)
            ELSE IF JsonLoads(<<line>>).ok
            THEN IF IsDict(line.val)
                 THEN NdjsonFrom(lines, line_num + 1, Append(recs, line.val))
                 ELSE [error |-> ExpectedObject(line_num), data |-> <<>>]
            ELSE [error |-> InvalidJson(line_num), data |-> <<>>]

ParseNdjson(content) == NdjsonFrom(Strip(content), 1, <<>>)

ParseJsonText(text) ==
    LET content == Strip(text)
        whole == JsonLoads(content)
    IN IF content = <<>> THEN [error |-> NoError, data |-> <<>>]
       ELSE IF whole.ok
       THEN IF IsList(whole.data) THEN [error |-> NoError, data |-> whole.data.kids]
            ELSE IF IsDict(whole.data) THEN [error |-> NoError, data |-> <<whole.data>>]
            ELSE [error |-> ShapeError, data |-> <<>>]
       ELSE ParseNdjson(content)

\* ------------------------------------------------------------ state

VARIABLES
    cfg,         \* the converter's options (self.delimiter, self.fields, ...)
    input,       \* the text of input_stream, a sequence of lines
    pc,          \* where convert is
    json_data,   \* convert's json_data
    records,     \* convert's records
    fieldnames,  \* _write_csv's fieldnames
    row,         \* how many records _write_csv's loop has written
    output,      \* the rows written to output_stream, each a sequence of cells
    error        \* the exception convert ended with

vars == <<cfg, input, pc, json_data, records, fieldnames, row, output, error>>

\* self.fields: None, or a list of field names.
NoFields == [given |-> FALSE, list |-> <<>>]
Fields(l) == [given |-> TRUE, list |-> l]
\* if self.fields:
FieldsTruthy(f) == f.given /\ f.list # <<>>

\* ------------------------------------------------------------ convert

\* A variant of the parser that writes each NDJSON record's row as soon as its line
\* is parsed, so an error on a later line leaves rows behind.
ParseJsonStreaming ==
    /\ pc = "start"
    /\ LET r == ParseJsonText(input)
           content == Strip(input)
           good == SelectSeq(SubSeq(content, 1, r.error.line - 1),
                             LAMBDA l : ~IsBlank(l))
       IN IF r.error = NoError
          THEN /\ json_data' = r.data
               /\ pc' = "parsed"
               /\ UNCHANGED <<error, output>>
          ELSE /\ error' = r.error
               /\ pc' = "error"
               /\ json_data' = json_data
               /\ output' = IF r.error.line > 1
                            THEN [i \in 1..Len(good) |->
                                    RowOf(good[i].val, FieldNames(<<good[i].val>>))]
                            ELSE output
    /\ UNCHANGED <<cfg, input, records, fieldnames, row>>

ParseJson ==
    /\ pc = "start"
    /\ LET r == ParseJsonText(input)
       IN IF r.error = NoError
          THEN /\ json_data' = r.data
               /\ pc' = "parsed"
               /\ error' = error
          ELSE /\ error' = r.error
               /\ pc' = "error"
               /\ json_data' = json_data
    /\ UNCHANGED <<cfg, input, records, fieldnames, row, output>>

ToRecords ==
    /\ pc = "parsed"
    /\ records' = JsonToRecords(cfg, json_data)
    /\ pc' = "flat"
    /\ UNCHANGED <<cfg, input, json_data, fieldnames, row, output, error>>

Project ==
    /\ pc = "flat"
    /\ records' = IF FieldsTruthy(cfg.fields)
                  THEN FilterFields(records, cfg.fields.list)
                  ELSE records
    /\ pc' = "write"
    /\ UNCHANGED <<cfg, input, json_data, fieldnames, row, output, error>>

\* A variant of _write_csv without the early return for an empty record list.
WriteCsvNoEmptyCheck ==
    /\ pc = "write"
    /\ fieldnames' = FieldNames(records)
    /\ output' = IF cfg.no_header THEN output ELSE Append(output, FieldNames(records))
    /\ pc' = "rows"
    /\ UNCHANGED <<cfg, input, json_data, records, row, error>>

\* _write_csv up to its loop: the early return, fieldnames, the header.
WriteCsv ==
    /\ pc = "write"
    /\ IF records = <<>>
       THEN /\ pc' = "done"
            /\ UNCHANGED <<fieldnames, output>>
       ELSE /\ fieldnames' = FieldNames(records)
            /\ output' = IF cfg.no_header THEN output
                         ELSE Append(output, FieldNames(records))
            /\ pc' = "rows"
    /\ UNCHANGED <<cfg, input, json_data, records, row, error>>

\* One turn of _write_csv's loop, and the return after the last record.
WriteRow ==
    /\ pc = "rows"
    /\ IF row = Len(records)
       THEN /\ pc' = "done"
            /\ UNCHANGED <<row, output, error>>
       ELSE IF HasExtras(records[row + 1], fieldnames)
       THEN /\ pc' = "error"
            /\ error' = WriterError
            /\ UNCHANGED <<row, output>>
       ELSE /\ output' = Append(output, RowOf(records[row + 1], fieldnames))
            /\ row' = row + 1
            /\ pc' = pc
            /\ error' = error
    /\ UNCHANGED <<cfg, input, json_data, records, fieldnames>>

Next == ParseJson \/ ToRecords \/ Project \/ WriteCsv \/ WriteRow

\* ------------------------------------------------------------ inputs

Semicolon == <<59>>
Comma == <<44>>

\* Sequences of at most n distinct keys of K, in every order.
KeySeqs(K, n) ==
    {ks \in UNION {[1..m -> K] : m \in 0..n} :
        \A i, j \in 1..Len(ks) : i # j => ks[i] # ks[j]}

\* Input texts: every text of 1..MaxLines lines over these lines.
DocA == Obj(<<KA>>, <<Num(1)>>)
DocZA == Obj(<<KZ, KA>>, <<Str(TxtX), Null>>)
DocScalar == Num(7)
DocArray == List(<<Obj(<<KB>>, <<List(<<Num(1), Null>>)>>), Num(2)>>)
Lines == {Blank, Bad, Open, Close, Json(DocA), Json(DocZA), Json(DocScalar), Json(DocArray)}
Texts == UNION {[1..n -> Lines] : n \in 1..MaxLines}

TextConfigs ==
    [delimiter : {Comma, Semicolon},
     fields : {NoFields, Fields(<<KZ, KA>>)},
     no_header : BOOLEAN,
     list_handling : {"join", "index"},
     join_string : {Pipe}]

\* Tables: arrays of at most MaxRecords flat objects of at most MaxKeys keys, the
\* keys in every order, and a few arrays with the same key under different values
\* and with elements that are no objects.
TableKeys == {KA, KB, KZ}
TableValue(k) == IF k = KA THEN Num(1) ELSE IF k = KB THEN Null ELSE Str(TxtX)
TableRecords ==
    {Obj(ks, [i \in 1..Len(ks) |-> TableValue(ks[i])]) : ks \in KeySeqs(TableKeys, MaxKeys)}
Tables ==
    UNION {[1..n -> TableRecords] : n \in 0..MaxRecords}
    \cup {<<Obj(<<KA>>, <<Null>>), Obj(<<KA, KB>>, <<Str(TxtX), Num(2)>>)>>,
          <<Num(1), Obj(<<KValue, KA>>, <<Null, Bool(1)>>)>>,
          <<Null, Str(Comma)>>}

TableConfigs ==
    [delimiter : {Comma},
     fields : {NoFields, Fields(<<>>), Fields(<<KZ, KA>>), Fields(<<KB, KB>>)},
     no_header : BOOLEAN,
     list_handling : {"join"},
     join_string : {Pipe}]

\* Nested records: one array element, an object of at most MaxKeys keys over these
\* values (or one of the values itself, which is wrapped when it is no object).
NestedKeys == {KEmpty, KA, KB}
Inner == Obj(<<KA>>, <<Num(1)>>)
NestedValues ==
    {Null, Num(1), Str(TxtX),
     EmptyDict, Inner, Obj(<<KB, KEmpty>>, <<Inner, Null>>), Obj(<<KEmpty>>, <<Inner>>),
     List(<<>>), List(<<Num(1), Null>>), List(<<Inner, Str(TxtX)>>),
     List(<<List(<<Num(2)>>), Bool(0)>>)}
NestedRecords ==
    UNION {{Obj(ks, vs) : vs \in [1..Len(ks) -> NestedValues]} :
              ks \in KeySeqs(NestedKeys, MaxKeys)}
NestedData == {<<v>> : v \in NestedRecords \cup NestedValues}

\* The join string matters to the join policy alone.
NestedConfigs ==
    [delimiter : {Comma},
     fields : {NoFields},
     no_header : {FALSE},
     list_handling : {"join"},
     join_string : {Pipe, Semicolon}]
    \cup
    [delimiter : {Comma},
     fields : {NoFields},
     no_header : {FALSE},
     list_handling : {"index", "keep"},
     join_string : {Pipe}]

Start ==
    /\ pc = "start"
    /\ json_data = <<>>
    /\ records = <<>>
    /\ fieldnames = <<>>
    /\ row = 0
    /\ output = <<>>
    /\ error = NoError

\* convert on a text of several lines.
Init ==
    /\ cfg \in TextConfigs
    /\ input \in Texts
    /\ Start

Spec == Init /\ [][Next]_vars

\* convert on a one-line document, an array.
InitDocs ==
    /\ \/ cfg \in TableConfigs /\ \E d \in Tables : input = <<Json(List(d))>>
       \/ cfg \in NestedConfigs /\ \E d \in NestedData : input = <<Json(List(d))>>
    /\ Start

SpecDocs == InitDocs /\ [][Next]_vars

\* ------------------------------------------------------------ claims

SeqSet(q) == {q[i] : i \in 1..Len(q)}
Written == pc \in {"rows", "done"} /\ records # <<>>
HeaderRows == IF cfg.no_header THEN 0 ELSE 1

\* C1: with a non-empty field list configured, the columns of the CSV are the
\* requested field names in exactly the order given (fields z,a give header z,a).
\* Stated for field lists that name no field twice.
C1_ColumnsAreRequestedFields ==
    (FieldsTruthy(cfg.fields) /\ Written
        /\ Cardinality(SeqSet(cfg.fields.list)) = Len(cfg.fields.list)) =>
        /\ fieldnames = cfg.fields.list
        /\ ~cfg.no_header => output[1] = cfg.fields.list

\* The records of the array d under every permutation p of its elements.
Permuted(d, p) == [i \in 1..Len(d) |-> d[p[i]]]
Bijections(n) == {p \in [1..n -> 1..n] : \A i, j \in 1..n : i # j => p[i] # p[j]}
\* The object o with its keys in the opposite order.
Reversed(o) ==
    IF IsDict(o)
    THEN Obj([i \in 1..Len(o.keys) |-> o.keys[Len(o.keys) + 1 - i]],
             [i \in 1..Len(o.kids) |-> o.kids[Len(o.kids) + 1 - i]])
    ELSE o

\* C2: with no field list the column list is the union of the keys of all records,
\* without duplicates, ascending by code point; so it is the same for every
\* permutation of the input records and for the records' keys in another order.
C2_ColumnsSortedUnion ==
    (~FieldsTruthy(cfg.fields) /\ Written) =>
        /\ \A i, j \in 1..Len(fieldnames) : i < j => StrLess(fieldnames[i], fieldnames[j])
        /\ SeqSet(fieldnames) = UNION {KeySet(records[i]) : i \in 1..Len(records)}
        /\ \A p \in Bijections(Len(json_data)) :
              /\ FieldNames(JsonToRecords(cfg, Permuted(json_data, p))) = fieldnames
              /\ FieldNames(JsonToRecords(cfg,
                    [i \in 1..Len(json_data) |-> Reversed(json_data[p[i]])])) = fieldnames

\* Two records, keys z,a and then b, no field list: columns a,b,z.
C2_Witness ==
    /\ pc = "done"
    /\ ~FieldsTruthy(cfg.fields)
    /\ Len(records) = 2
    /\ records[1].keys = <<KZ, KA>>
    /\ records[2].keys = <<KB>>
    /\ fieldnames = <<KA, KB, KZ>>

ParserError == pc = "error" /\ error.kind # WriterError.kind

\* C3: nothing is written before the whole input is read, parsed, flattened and
\* projected; so a run that ends with a parser error (the top-level shape, or an
\* NDJSON line, the last one included) has written nothing.
C3_NoOutputBeforeAllParsed ==
    /\ ParserError => output = <<>>
    /\ pc \in {"start", "parsed", "flat", "write"} => output = <<>>
    /\ output # <<>> =>
          /\ ParseJsonText(input).error = NoError
          /\ json_data = ParseJsonText(input).data
          /\ records = (IF FieldsTruthy(cfg.fields)
                        THEN FilterFields(JsonToRecords(cfg, json_data), cfg.fields.list)
                        ELSE JsonToRecords(cfg, json_data))

\* Two good NDJSON records, then a third line that is no JSON: an error, no output.
C3_Witness ==
    /\ pc = "error"
    /\ Len(input) = 3
    /\ input[1] = Json(DocA)
    /\ input[2] = Json(DocZA)
    /\ error = InvalidJson(3)
    /\ output = <<>>

\* C4: _filter_fields returns one record per record, in order, whose keys are exactly
\* the requested fields: a present key keeps its value, an absent one is null, the
\* others are dropped; with no field list the records pass through unchanged.
C4_FilterFields ==
    pc \in {"write", "rows", "done"} =>
        LET flat == JsonToRecords(cfg, json_data)
        IN IF FieldsTruthy(cfg.fields)
           THEN /\ Len(records) = Len(flat)
                /\ \A i \in 1..Len(records) :
                      /\ KeySet(records[i]) = SeqSet(cfg.fields.list)
                      /\ Len(records[i].keys) = Cardinality(KeySet(records[i]))
                      /\ Len(records[i].kids) = Len(records[i].keys)
                      /\ \A f \in SeqSet(cfg.fields.list) :
                            DictGet(records[i], f) =
                                (IF HasKey(flat[i], f) THEN DictGet(flat[i], f) ELSE Null)
           ELSE records = flat

\* Fields z,a on a record with keys a,b: a kept, b dropped, z null.
C4_Witness ==
    /\ pc = "write"
    /\ cfg.fields = Fields(<<KZ, KA>>)
    /\ json_data = <<Obj(<<KA>>, <<Null>>), Obj(<<KA, KB>>, <<Str(TxtX), Num(2)>>)>>
    /\ records[2] = Obj(<<KZ, KA>>, <<Null, Str(TxtX)>>)

\* The place, in the input text, of the first line that is neither blank nor an object.
FirstFailingLine(text) ==
    CHOOSE n \in 1..Len(text) :
        /\ ~IsBlank(text[n]) /\ ~(text[n].kind = "json" /\ IsDict(text[n].val))
        /\ \A m \in 1..(n - 1) :
              IsBlank(text[m]) \/ (text[m].kind = "json" /\ IsDict(text[m].val))

\* C5: in NDJSON mode the first line that fails to parse or is no object aborts the
\* conversion with "Line N: ...", N the 1-based place of the line among the lines of
\* the input text, blank lines counted, those before the first record included.
C5_LineNumberInInputText ==
    (pc = "error" /\ error.line > 0) => error.line = FirstFailingLine(input)

AllBlank(text) == \A i \in 1..Len(text) : IsBlank(text[i])

\* C6: an empty or whitespace-only input ends convert successfully with nothing
\* written, whatever the configuration; _write_csv writes nothing for no records.
C6_EmptyInputNoOutput ==
    /\ AllBlank(input) =>
          /\ pc # "error" /\ error = NoError
          /\ output = <<>>
          /\ pc # "done" => ENABLED Next
    /\ (pc = "done" /\ records = <<>>) => output = <<>>

\* Two blank lines, header wanted, a field list configured: done, nothing written.
C6_Witness ==
    /\ pc = "done"
    /\ Len(input) = 2
    /\ AllBlank(input)
    /\ ~cfg.no_header
    /\ FieldsTruthy(cfg.fields)
    /\ output = <<>>

\* C7: under the join policy no value of a flat record is a list after
\* _json_to_records; a list, also one that is an array element wrapped as
\* {"value": element}, becomes one string of its joined elements at the same key.
C7_JoinLeavesNoList ==
    (pc = "flat" /\ cfg.list_handling = "join") =>
        \A i \in 1..Len(records) :
            /\ \A j \in 1..Len(records[i].kids) : ~IsList(records[i].kids[j])
            /\ IsList(json_data[i]) =>
                  records[i] = Obj(<<KValue>>, <<JoinList(cfg.join_string, json_data[i])>>)

\* C8 as stated: no value of a flat record is an object, under either list policy.
C8_NoObjectValue ==
    pc = "flat" =>
        \A i \in 1..Len(records) : \A j \in 1..Len(records[i].kids) :
            ~IsDict(records[i].kids[j])

\* The elements of the lists of obj (reached through nested objects), each with the
\* key the index policy gives it.
RECURSIVE IndexedElements(_, _)
IndexedElements(obj, prefix) ==
    UNION {LET k == NewKey(prefix, obj.keys[i])
               v == obj.kids[i]
           IN IF IsDict(v) THEN IndexedElements(v, k)
              ELSE IF IsList(v)
              THEN {<<k \o Dot \o Digits(n - 1), v.kids[n]>> : n \in 1..Len(v.kids)}
              ELSE {} : i \in 1..Len(obj.keys)}

\* C8, amended: a value of a flat record is an object only under the index policy,
\* where it is an element of a list of the source record, left as it is at key.i;
\* under the join policy no value is an object.
C8_ObjectOnlyAsIndexedElement ==
    pc = "flat" =>
        \A i \in 1..Len(records) : \A j \in 1..Len(records[i].kids) :
            IsDict(records[i].kids[j]) =>
                /\ cfg.list_handling = "index"
                /\ IsDict(json_data[i])
                /\ <<records[i].keys[j], records[i].kids[j]>>
                      \in IndexedElements(json_data[i], <<>>)

\* Join policy, a record with a list holding an object and a nested object: flat.
C8_Witness ==
    /\ pc = "flat"
    /\ cfg.list_handling = "join"
    /\ json_data = <<Obj(<<KA, KB>>, <<List(<<Inner, Str(TxtX)>>),
                                       Obj(<<KB, KEmpty>>, <<Inner, Null>>)>>)>>
    /\ records[1].keys = <<KA, KB \o Dot \o KB \o Dot \o KA, KB \o Dot>>
    /\ \A j \in 1..3 : ~IsDict(records[1].kids[j])

\* Objects and scalars only, no list, no key with a dot.
RECURSIVE Plain(_)
Plain(v) ==
    /\ ~IsList(v)
    /\ IsDict(v) => \A i \in 1..Len(v.keys) :
                       /\ \A n \in 1..Len(v.keys[i]) : <<v.keys[i][n]>> # Dot
                       /\ Plain(v.kids[i])

\* The leaves of obj, each with the keys on its path, and their number.
RECURSIVE Leaves(_, _)
Leaves(obj, path) ==
    UNION {IF IsDict(obj.kids[i])
           THEN Leaves(obj.kids[i], Append(path, obj.keys[i]))
           ELSE {<<JoinStrs(Dot, Append(path, obj.keys[i])), obj.kids[i]>>} :
              i \in 1..Len(obj.keys)}

RECURSIVE LeafCount(_)
LeafCount(obj) ==
    IF ~IsDict(obj) THEN 1
    ELSE IF obj.keys = <<>> THEN 0
    ELSE LeafCount(obj.kids[1]) + LeafCount(Obj(Tail(obj.keys), Tail(obj.kids)))

\* C9: for a record of nested objects and scalar or null leaves (no list, no dot in
\* a key) _flatten_object has exactly one entry per leaf, its key the keys on the
\* path joined by ".", its value the leaf; none lost, none overwritten.
C9_OneEntryPerLeaf ==
    (pc = "flat" /\ Len(json_data) = 1 /\ IsDict(json_data[1]) /\ Plain(json_data[1])) =>
        /\ {<<records[1].keys[j], records[1].kids[j]>> : j \in 1..Len(records[1].keys)}
              = Leaves(json_data[1], <<>>)
        /\ Len(records[1].keys) = LeafCount(json_data[1])

\* C10: what _write_csv writes is rectangular: the header (unless suppressed) and
\* every row have one cell per column, rows come in record order, a missing column or
\* a null is an empty cell, and every key of every record is a column, so the writer
\* rejects no record.
C10_Rectangular ==
    /\ error # WriterError
    /\ Written =>
          /\ Len(output) = HeaderRows + row
          /\ ~cfg.no_header => output[1] = fieldnames
          /\ \A r \in 1..Len(output) : Len(output[r]) = Len(fieldnames)
          /\ \A i \in 1..Len(records) : KeySet(records[i]) \subseteq SeqSet(fieldnames)
          /\ \A i \in 1..row : \A j \in 1..Len(fieldnames) :
                output[HeaderRows + i][j] =
                    (IF HasKey(records[i], fieldnames[j])
                        /\ DictGet(records[i], fieldnames[j]) # Null
                     THEN PyStr(DictGet(records[i], fieldnames[j]))
                     ELSE <<>>)
          /\ pc = "done" => row = Len(records)

\* Records {a: null} and {a: "x", b: 2}: header a,b and rows "", "" and x, 2.
C10_Witness ==
    /\ pc = "done"
    /\ ~FieldsTruthy(cfg.fields)
    /\ records = <<Obj(<<KA>>, <<Null>>), Obj(<<KA, KB>>, <<Str(TxtX), Num(2)>>)>>
    /\ output = <<<<KA, KB>>, <<<<>>, <<>>>>, <<TxtX, Digits(2)>>>>

====
